---- MODULE Spec2Model ----
(***************************************************************************)
(* A model of the cli package: the Parameter tree, its value accessor, the *)
(* parameter handlers and the application of src/cli/app.py, and the       *)
(* Values-based application of src/cli.py.                                 *)
(*                                                                         *)
(* Python strings are sequences of one-character strings, so that split,   *)
(* join, replace, upper and lower are computed and not assumed.  Python    *)
(* values are records [t, s, n]: t the type name, s the string payload,    *)
(* n the integer payload.  A raised exception is the record whose t is the *)
(* exception's class name.                                                 *)
(***************************************************************************)
EXTENDS Integers, Sequences, FiniteSets, TLC

\* ------------------------------------------------------------------ bounds

\* Parameter objects that may exist at once (the root included).
MaxNodes == 3
\* Consecutive reads of one parameter's .value that are counted.
MaxReads == 2
\* Options registered with add_option before run() (src/cli.py).
MaxOptions == 2
\* The most -v or -q flags counted on a command line.
MaxCount == 5

\* ------------------------------------------------------------ python values

StrV(s) == [t |-> "str", s |-> s, n |-> 0]
IntV(i) == [t |-> "int", s |-> <<>>, n |-> i]
BoolV(b) == [t |-> "bool", s |-> <<>>, n |-> IF b THEN 1 ELSE 0]
NoneV == [t |-> "NoneType", s |-> <<>>, n |-> 0]
\* The module-level sentinel of an unset raw value.
Nothing == [t |-> "Nothing", s |-> <<>>, n |-> 0]
Raised(kind) == [t |-> kind, s |-> <<>>, n |-> 0]

ExceptionKinds ==
    {"ValueError", "TypeError", "KeyError", "AttributeError", "ParameterError",
     "OptionConflictError", "OptionError", "IndexError", "SystemExit"}
IsRaised(v) == v.t \in ExceptionKinds

\* ----------------------------------------------------------------- strings

Letters ==
    <<"a","b","c","d","e","f","g","h","i","j","k","l","m",
      "n","o","p","q","r","s","t","u","v","w","x","y","z">>
Capitals ==
    <<"A","B","C","D","E","F","G","H","I","J","K","L","M",
      "N","O","P","Q","R","S","T","U","V","W","X","Y","Z">>
Digits == <<"0","1","2","3","4","5","6","7","8","9">>

IndexIn(c, table) ==
    IF \E i \in DOMAIN table : table[i] = c
    THEN CHOOSE i \in DOMAIN table : table[i] = c
    ELSE 0

\* str.lower() and str.upper(), one character at a time.
LowerChar(c) == IF IndexIn(c, Capitals) # 0 THEN Letters[IndexIn(c, Capitals)] ELSE c
UpperChar(c) == IF IndexIn(c, Letters) # 0 THEN Capitals[IndexIn(c, Letters)] ELSE c
Lower(s) == [i \in DOMAIN s |-> LowerChar(s[i])]
Upper(s) == [i \in DOMAIN s |-> UpperChar(s[i])]

\* str.replace(old, new) for one-character old and new.
Replace(s, old, new) == [i \in DOMAIN s |-> IF s[i] = old THEN new ELSE s[i]]

IsDigits(s) == Len(s) > 0 /\ \A i \in DOMAIN s : IndexIn(s[i], Digits) # 0

RECURSIVE DigitsValue(_)
DigitsValue(s) ==
    IF s = <<>> THEN 0
    ELSE 10 * DigitsValue(SubSeq(s, 1, Len(s) - 1)) + (IndexIn(s[Len(s)], Digits) - 1)

\* ------------------------------------------------------- coercion functions

\* The builtin int() used as a coercion function by the tests.
CoerceInt(v) ==
    CASE v.t = "int" -> v
      [] v.t = "bool" -> IntV(v.n)
      [] v.t = "str" -> IF IsDigits(v.s) THEN IntV(DigitsValue(v.s)) ELSE Raised("ValueError")
      [] OTHER -> Raised("TypeError")

\* util.Boolean: a string is true when, lower-cased, it says yes; anything
\* else is true as bool() finds it.
Boolean(v) ==
    CASE v.t = "str" -> BoolV(Lower(v.s) \in {<<"y","e","s">>, <<"y">>})
      [] v.t \in {"int", "bool"} -> BoolV(v.n # 0)
      [] OTHER -> BoolV(FALSE)

Identity(v) == v

\* Calling the function a coerce attribute or a coerce_factories entry names.
Apply(fn, v) ==
    CASE fn = "int" -> CoerceInt(v)
      [] fn = "Boolean" -> Boolean(v)
      [] OTHER -> Identity(v)

\* Parameter.coerce_factories: {bool: Boolean, type(None): lambda x: x}.
coerce_factories == [bool |-> "Boolean", NoneType |-> "lambda"]

\* ---------------------------------------------------------- more strings

StartsWith(s, pre) == Len(pre) <= Len(s) /\ SubSeq(s, 1, Len(pre)) = pre

\* s.find(c) + 1: the first position of the character c in s, 0 when absent.
Find(s, c) ==
    IF \E i \in DOMAIN s : s[i] = c
    THEN CHOOSE i \in DOMAIN s : s[i] = c /\ \A j \in 1 .. (i - 1) : s[j] # c
    ELSE 0

\* delim.join(parts) for a one-character delim.
RECURSIVE Join(_, _)
Join(delim, parts) ==
    IF parts = <<>> THEN <<>>
    ELSE IF Len(parts) = 1 THEN parts[1]
    ELSE parts[1] \o <<delim>> \o Join(delim, Tail(parts))

\* s.split(delim) for a one-character delim.
RECURSIVE Split(_, _)
Split(s, delim) ==
    IF Find(s, delim) = 0 THEN <<s>>
    ELSE <<SubSeq(s, 1, Find(s, delim) - 1)>>
         \o Split(SubSeq(s, Find(s, delim) + 1, Len(s)), delim)

\* s.lstrip(c)
RECURSIVE LStrip(_, _)
LStrip(s, c) == IF s # <<>> /\ s[1] = c THEN LStrip(Tail(s), c) ELSE s

\* The order of characters that cmp() on strings uses.
Ascii == <<"-", ".">> \o Digits \o <<"=">> \o Capitals \o <<"_">> \o Letters

RECURSIVE StrLess(_, _)
StrLess(a, b) ==
    IF b = <<>> THEN FALSE
    ELSE IF a = <<>> THEN TRUE
    ELSE IF a[1] = b[1] THEN StrLess(Tail(a), Tail(b))
    ELSE IndexIn(a[1], Ascii) < IndexIn(b[1], Ascii)

\* ---------------------------------------------------------------- optparse

\* optparse.OptionParser: the options registered, in order.  An option is
\* [short, long, dest, action, default]; the help option every parser is
\* born with has no dest.
HelpOption ==
    [short |-> <<"-","h">>, long |-> <<"-","-","h","e","l","p">>, dest |-> <<>>,
     action |-> "help", default |-> NoneV]
NewParser == <<HelpOption>>

Dests(options) == {options[i].dest : i \in {j \in DOMAIN options : options[j].dest # <<>>}}
OptionAt(options, dest) ==
    options[CHOOSE i \in DOMAIN options :
                /\ options[i].dest = dest
                /\ \A j \in DOMAIN options : options[j].dest = dest => j <= i]

\* OptionParser.has_option
has_option(options, str) ==
    \E i \in DOMAIN options : options[i].short = str \/ options[i].long = str

\* OptionParser.add_option: Option._set_opt_strings refuses malformed option
\* strings, _check_conflict refuses strings already taken.
parser_add_option(options, o) ==
    IF \/ Len(o.short) # 2 \/ o.short[1] # "-" \/ o.short[2] = "-"
       \/ Len(o.long) < 3 \/ ~StartsWith(o.long, <<"-","-">>) \/ o.long[3] = "-"
    THEN [options |-> options, err |-> "OptionError"]
    ELSE IF has_option(options, o.short) \/ has_option(options, o.long)
    THEN [options |-> options, err |-> "OptionConflictError"]
    ELSE [options |-> Append(options, o), err |-> "ok"]

\* OptionParser.get_default_values: the last default registered for a dest.
DefaultValues(options) == [d \in Dests(options) |-> OptionAt(options, d).default]

takes_value(o) == o.action = "store"

\* Option.take_action
take_action(o, value, vals) ==
    CASE o.action = "store" -> [vals EXCEPT ![o.dest] = value]
      [] o.action = "store_true" -> [vals EXCEPT ![o.dest] = BoolV(TRUE)]
      [] o.action = "count" ->
            [vals EXCEPT ![o.dest] =
                IF vals[o.dest] = NoneV THEN IntV(1) ELSE IntV(vals[o.dest].n + 1)]
      [] OTHER -> vals

ParseFailed(vals) == [vals |-> vals, args |-> <<>>, err |-> "SystemExit"]

\* OptionParser._match_long_opt: the exact option, or the only one that the
\* string abbreviates.
LongMatches(options, opt) ==
    IF \E i \in DOMAIN options : options[i].long = opt
    THEN {i \in DOMAIN options : options[i].long = opt}
    ELSE {i \in DOMAIN options : StartsWith(options[i].long, opt)}

\* OptionParser._process_args, _process_long_opt and _process_short_opts.
RECURSIVE process_args(_, _, _, _), process_short_opts(_, _, _, _, _, _)
process_args(options, largs, rargs, vals) ==
    IF rargs = <<>> THEN [vals |-> vals, args |-> largs, err |-> "ok"]
    ELSE LET arg == Head(rargs)
             rest == Tail(rargs)
         IN  IF arg = <<"-","-">> THEN [vals |-> vals, args |-> largs \o rest, err |-> "ok"]
             ELSE IF StartsWith(arg, <<"-","-">>)
             THEN LET eq == Find(arg, "=")
                      opt == IF eq > 0 THEN SubSeq(arg, 1, eq - 1) ELSE arg
                      rargs1 == IF eq > 0 THEN <<SubSeq(arg, eq + 1, Len(arg))>> \o rest
                                ELSE rest
                      found == LongMatches(options, opt)
                  IN  IF Cardinality(found) # 1 THEN ParseFailed(vals)
                      ELSE LET o == options[CHOOSE i \in found : TRUE]
                           IN  IF takes_value(o)
                               THEN IF rargs1 = <<>> THEN ParseFailed(vals)
                                    ELSE process_args(options, largs, Tail(rargs1),
                                            take_action(o, StrV(Head(rargs1)), vals))
                               ELSE IF eq > 0 \/ o.action = "help" THEN ParseFailed(vals)
                               ELSE process_args(options, largs, rargs1,
                                        take_action(o, NoneV, vals))
             ELSE IF Len(arg) > 1 /\ arg[1] = "-"
             THEN process_short_opts(options, largs, arg, 2, rest, vals)
             ELSE process_args(options, Append(largs, arg), rest, vals)
process_short_opts(options, largs, arg, i, rest, vals) ==
    IF i > Len(arg) THEN process_args(options, largs, rest, vals)
    ELSE LET found == {k \in DOMAIN options : options[k].short = <<"-", arg[i]>>}
         IN  IF found = {} THEN ParseFailed(vals)
             ELSE LET o == options[CHOOSE k \in found : TRUE]
                  IN  IF takes_value(o)
                      THEN IF i < Len(arg)
                           THEN process_args(options, largs, rest,
                                    take_action(o, StrV(SubSeq(arg, i + 1, Len(arg))), vals))
                           ELSE IF rest = <<>> THEN ParseFailed(vals)
                           ELSE process_args(options, largs, Tail(rest),
                                    take_action(o, StrV(Head(rest)), vals))
                      ELSE IF o.action = "help" THEN ParseFailed(vals)
                      ELSE process_short_opts(options, largs, arg, i + 1, rest,
                               take_action(o, NoneV, vals))

\* OptionParser.parse_args(argv): [vals, args, err].
parse_args(options, argv) == process_args(options, <<>>, argv, DefaultValues(options))

\* ------------------------------------------------------ the Parameter tree

VARIABLES
    nodes,      \* the Parameter objects constructed so far
    name,       \* Parameter.name
    default,    \* Parameter.default
    coerce,     \* Parameter.coerce: "None" or the name of a coercion function
    raw,        \* Parameter.raw_value
    parent,     \* Parameter.parent
    data,       \* Parameter.data, the register of children: name -> Parameter
    action,     \* Parameter.action, the optparse action given to add()
    call,       \* the call made last: its arguments, what it found, its outcome
    argv,       \* CommandLineApp.argv
    environ,    \* CommandLineApp.env, the mapping given to the application
    osenviron,  \* os.environ
    pc,         \* where run() stands: the step it takes next
    args,       \* CommandLineApp.args
    raised,     \* the exception that ended run(), "ok" while there is none
    parser,     \* cli.py: CommandLineApp.parser, the options registered
    config,     \* cli.py: CommandLineApp.config_file and what the file holds
    env,        \* cli.py: CommandLineApp.env, None or a mapping
    values,     \* cli.py: the Values tree that the values property builds
    var_name,   \* Parameter.var_name, the keyword given to add(): None or a key
    resolved,   \* the attributes that resolve_parameter has set: <<node, name, value>>
    main,       \* CommandLineApp.main: whether it is callable, what it returns
    exit_after_main, \* CommandLineApp.exit_after_main
    invoked,    \* the calls of main made so far: the arguments after the application
    result,     \* how run() ended: not yet, returned a value, left by sys.exit, raised
    opts,       \* the options given to CLILogger.setLevel
    level,      \* CLILogger.level
    parse,      \* lib/cli/config.py: a parser, the file it reads, what it made of it
    capp        \* lib/cli/config.py: a ConfigApp, its logger and its parameters

treeVars == <<nodes, name, default, coerce, raw, parent, data, action>>
appVars == <<argv, environ, osenviron, pc, args, raised>>
cliVars == <<parser, config, env, values>>
envVars == <<var_name>>
runVars == <<resolved, main, exit_after_main, invoked, result>>
logVars == <<opts, level>>
confVars == <<parse, capp>>
vars == <<treeVars, call, appVars, cliVars, envVars, runVars, logVars, confVars>>

NodeIds == 0 .. (MaxNodes - 1)
NoNode == -1

foo == <<"f","o","o">>
path == <<"p","a","t","h">>
root == <<"r","o","o","t">>

\* The names given to parameters, in the order a register lists them.
NameList == <<foo, path, <<"p","i","d","f","i","l","e">>, <<"F","O","O">>>>
NameSet == {NameList[i] : i \in DOMAIN NameList}
\* The names passed to the constructor by the calls enumerated.
NewNames == {foo, path}
\* Names that are attributes of every Parameter, as the properties path and
\* children are.
ReservedNames == {path, <<"c","h","i","l","d","r","e","n">>}

EmptyData == [nm \in NameSet |-> NoNode]

\* The Parameter-based classes know nothing of cli.py.
NoCli ==
    /\ parser = <<>>
    /\ config = [given |-> FALSE, items |-> {}]
    /\ env = [given |-> FALSE, items |-> {}]
    /\ values = {}

\* No parameter was given a var_name.
NoEnv == var_name = [n \in NodeIds |-> NoneV]
\* run() has not been called.
NoResult == [t |-> "none", v |-> NoneV]
NoRun ==
    /\ resolved = {}
    /\ main = [callable |-> TRUE, returns |-> NoneV]
    /\ exit_after_main = TRUE
    /\ invoked = <<>>
    /\ result = NoResult
\* logging.Logger.__init__: the level is NOTSET.
NOTSET == 0
NoLog ==
    /\ opts = [verbose |-> 0, quiet |-> 0, silent |-> FALSE]
    /\ level = NOTSET
\* No parser and no ConfigApp of lib/cli/config.py was made.
NoParse == [cls |-> "none"]
NoConfigApp == [pc |-> "none"]
NoConf ==
    /\ parse = NoParse
    /\ capp = NoConfigApp

\* No application is under way: the Parameter objects are used on their own.
NoApp ==
    /\ NoEnv
    /\ NoRun
    /\ NoLog
    /\ NoConf
    /\ argv = <<>>
    /\ environ = {}
    /\ osenviron = {}
    /\ pc = "none"
    /\ args = <<>>
    /\ raised = "ok"
    /\ NoCli

NoCall ==
    [op |-> "none", self |-> NoNode, key |-> <<>>, node |-> NoNode,
     val |-> Nothing, was |-> NoNode, len |-> 0, nth |-> 0, err |-> "ok"]

\* Parameter.children: every child followed by its own children, recursively.
RECURSIVE ChildrenAt(_, _, _)
ChildrenAt(d, n, i) ==
    IF i > Len(NameList) THEN <<>>
    ELSE LET c == d[n][NameList[i]]
         IN  (IF c = NoNode THEN <<>> ELSE <<c>> \o ChildrenAt(d, c, 1))
             \o ChildrenAt(d, n, i + 1)
children(d, n) == ChildrenAt(d, n, 1)

SeqRange(s) == {s[i] : i \in DOMAIN s}

\* Parameter.__init__ for a name: the fields of the new object.
NewNode == Cardinality(nodes)
Construct(c, nm, dflt, co, act) ==
    /\ nodes' = nodes \cup {c}
    /\ action' = [action EXCEPT ![c] = act]
    /\ name' = [name EXCEPT ![c] = nm]
    /\ default' = [default EXCEPT ![c] = dflt]
    /\ coerce' = [coerce EXCEPT ![c] = co]
    /\ raw' = [raw EXCEPT ![c] = Nothing]

\* Parameter.add, after the parameter object c (named nm) is in hand.
addReserved(self, c, nm) ==
    IF nm \in ReservedNames
    THEN [parent |-> parent, data |-> data, err |-> "ParameterError"]
    ELSE [parent |-> [parent EXCEPT ![c] = self],
          data |-> [data EXCEPT ![self][nm] = c],
          err |-> "ok"]
add(self, c, nm) ==
    [parent |-> [parent EXCEPT ![c] = self],
     data |-> [data EXCEPT ![self][nm] = c],
     err |-> "ok"]

\* Parameter.remove, after the name is taken from the argument: dict.pop
\* without a default.
remove(self, nm) ==
    IF data[self][nm] = NoNode
    THEN [data |-> data, err |-> "KeyError"]
    ELSE [data |-> [data EXCEPT ![self][nm] = NoNode], err |-> "ok"]

\* Parameter("name"): a parameter that is in no tree yet.
NewParameter(nm) ==
    /\ NewNode < MaxNodes
    /\ Construct(NewNode, nm, NoneV, "None", "store")
    /\ UNCHANGED <<parent, data>>
    /\ call' = [NoCall EXCEPT !.op = "new", !.key = nm, !.node = NewNode]

\* self.add("name")
AddName(self, nm) ==
    /\ NewNode < MaxNodes
    /\ Construct(NewNode, nm, NoneV, "None", "store")
    /\ LET r == add(self, NewNode, nm)
       IN  /\ parent' = r.parent
           /\ data' = r.data
           /\ call' = [NoCall EXCEPT !.op = "add", !.self = self, !.key = nm,
                          !.node = NewNode, !.was = data[self][nm],
                          !.len = Len(children(data, self)), !.err = r.err]

\* self.add(c) for a Parameter instance c.  The calls enumerated keep the
\* registers free of cycles: c is not the root, not self, and self is not
\* below c.
AddParam(self, c) ==
    /\ c # self
    /\ c # 0
    /\ self \notin SeqRange(children(data, c))
    /\ LET r == add(self, c, name[c])
       IN  /\ parent' = r.parent
           /\ data' = r.data
           /\ call' = [NoCall EXCEPT !.op = "add", !.self = self, !.key = name[c],
                          !.node = c, !.was = data[self][name[c]],
                          !.len = Len(children(data, self)), !.err = r.err]
    /\ UNCHANGED <<nodes, name, default, coerce, raw, action>>

\* self.remove(x): x is a name, or a Parameter whose name is used; the
\* Parameter instances passed are registered children of self.
Remove(self, nm, how) ==
    LET r == remove(self, nm)
    IN  /\ data' = r.data
        /\ call' = [NoCall EXCEPT !.op = how, !.self = self, !.key = nm,
                       !.node = data[self][nm], !.was = data[self][nm],
                       !.err = r.err]
        /\ UNCHANGED <<nodes, name, default, coerce, raw, parent, action>>
RemoveName(self, nm) == Remove(self, nm, "remove")
RemoveParam(self, c) == data[self][name[c]] = c /\ Remove(self, name[c], "remove")

InitTree ==
    /\ nodes = {0}
    /\ name = [n \in NodeIds |-> IF n = 0 THEN root ELSE <<>>]
    /\ default = [n \in NodeIds |-> NoneV]
    /\ coerce = [n \in NodeIds |-> "None"]
    /\ raw = [n \in NodeIds |-> Nothing]
    /\ parent = [n \in NodeIds |-> NoNode]
    /\ data = [n \in NodeIds |-> EmptyData]
    /\ action = [n \in NodeIds |-> "store"]
    /\ call = NoCall
    /\ NoApp

NextTree ==
    /\ UNCHANGED <<appVars, cliVars, envVars, runVars, logVars, confVars>>
    /\ \/ \E nm \in NewNames : NewParameter(nm)
       \/ \E self \in nodes, nm \in NewNames : AddName(self, nm)
       \/ \E self \in nodes, c \in nodes : AddParam(self, c)
       \/ \E self \in nodes, nm \in NewNames : RemoveName(self, nm)
       \/ \E self \in nodes, c \in nodes \ {0} : RemoveParam(self, c)

SpecTree == InitTree /\ [][NextTree]_vars

\* --------------------------------------------------------- Parameter.value

TypeOf(v) == v.t

\* The getter of the value property.
get_value_coerce_default(p) ==
    LET key == IF TypeOf(default[p]) \in DOMAIN coerce_factories
               THEN TypeOf(default[p]) ELSE "NoneType"
        fn == IF coerce[p] # "None" THEN coerce[p] ELSE coerce_factories[key]
    IN  IF raw[p] # Nothing THEN Apply(fn, raw[p])
        ELSE IF coerce[p] # "None" THEN Apply(coerce[p], default[p])
        ELSE default[p]
get_value_no_factories(p) ==
    IF raw[p] # Nothing
    THEN (IF coerce[p] # "None" THEN Apply(coerce[p], raw[p]) ELSE raw[p])
    ELSE default[p]
get_value(p) ==
    IF raw[p] # Nothing
    THEN LET key == IF TypeOf(default[p]) \in DOMAIN coerce_factories
                    THEN TypeOf(default[p]) ELSE "NoneType"
             fn == IF coerce[p] # "None" THEN coerce[p] ELSE coerce_factories[key]
         IN  Apply(fn, raw[p])
    ELSE default[p]

\* The setter of the value property: setattr(self, "raw_value", new).
fset_eager(rw, p, new) ==
    LET fn == IF coerce[p] # "None" THEN coerce[p] ELSE "lambda"
    IN  IF IsRaised(Apply(fn, new))
        THEN [raw |-> rw, err |-> Apply(fn, new).t]
        ELSE [raw |-> [rw EXCEPT ![p] = new], err |-> "ok"]
fset(rw, p, new) == [raw |-> [rw EXCEPT ![p] = new], err |-> "ok"]

\* p.value = new
SetValue(p, new) ==
    LET r == fset(raw, p, new)
    IN  /\ raw' = r.raw
        /\ call' = [NoCall EXCEPT !.op = "set_value", !.self = p, !.val = new,
                       !.err = r.err]
        /\ UNCHANGED <<nodes, name, default, coerce, parent, data, action>>

\* p.value, read
ReadValue(p) ==
    LET v == get_value(p)
        again == call.op = "get_value" /\ call.self = p
    IN  /\ (again => call.nth < MaxReads)
        /\ call' = [NoCall EXCEPT !.op = "get_value", !.self = p, !.val = v,
                       !.nth = IF again THEN call.nth + 1 ELSE 1,
                       !.err = IF IsRaised(v) THEN v.t ELSE "ok"]
        /\ UNCHANGED treeVars

\* The defaults and coercion functions the enumerated parameters are built
\* with, and the raw values assigned to them.
Defaults == {NoneV, IntV(0), BoolV(FALSE), StrV(<<"5">>), StrV(<<"n","o">>)}
Coercers == {"None", "int", "Boolean"}
RawValues ==
    {StrV(<<"y","e","s">>), StrV(<<"Y">>), StrV(<<"n","o">>), StrV(<<>>),
     StrV(<<"t","e","n">>), StrV(<<"1","0">>), IntV(0), IntV(10), BoolV(TRUE), NoneV}

\* root = Parameter("root"); root.add("foo", default=d, coerce=co)
InitParam ==
    \E d \in Defaults, co \in Coercers :
        /\ nodes = {0, 1}
        /\ name = [n \in NodeIds |-> IF n = 0 THEN root ELSE IF n = 1 THEN foo ELSE <<>>]
        /\ default = [n \in NodeIds |-> IF n = 1 THEN d ELSE NoneV]
        /\ coerce = [n \in NodeIds |-> IF n = 1 THEN co ELSE "None"]
        /\ raw = [n \in NodeIds |-> Nothing]
        /\ parent = [n \in NodeIds |-> IF n = 1 THEN 0 ELSE NoNode]
        /\ data = [n \in NodeIds |-> IF n = 0 THEN [EmptyData EXCEPT ![foo] = 1] ELSE EmptyData]
        /\ action = [n \in NodeIds |-> "store"]
        /\ call = NoCall
        /\ NoApp

NextParam ==
    /\ UNCHANGED <<appVars, cliVars, envVars, runVars, logVars, confVars>>
    /\ \/ \E p \in nodes, v \in RawValues : SetValue(p, v)
       \/ \E p \in nodes : ReadValue(p)

SpecParam == InitParam /\ [][NextParam]_vars

\* ------------------------------------------------ paths and handler names

\* Parameter.path: the nodes from below the root down to n, along the parent
\* links; empty for a parameter without a parent.
RECURSIVE PathOf(_)
PathOf(n) == IF parent[n] = NoNode THEN <<>> ELSE PathOf(parent[n]) \o <<n>>

\* ParameterPath.__str__
PathStr(n) == LStrip(Join(".", [i \in DOMAIN PathOf(n) |-> name[PathOf(n)[i]]]), ".")

\* A mapping of strings is a set of <<key, value>> pairs with one pair a key.
Keys(m) == {kv[1] : kv \in m}
Get(m, k) == IF k \in Keys(m) THEN StrV((CHOOSE kv \in m : kv[1] = k)[2]) ELSE NoneV

\* sorted(parameters, cmp): a stable sort on the names.
RECURSIVE SortedByName(_)
SortedByName(ps) ==
    IF ps = <<>> THEN <<>>
    ELSE LET front == SortedByName(SubSeq(ps, 1, Len(ps) - 1))
             x == ps[Len(ps)]
             k == Cardinality({i \in DOMAIN front : ~StrLess(name[x], name[front[i]])})
         IN  SubSeq(front, 1, k) \o <<x>> \o SubSeq(front, k + 1, Len(front))

\* ------------------------------------------------ EnvironParameterHandler

\* EnvironParameterHandler.__init__: environ or os.environ.
HandlerEnviron == IF environ = {} THEN osenviron ELSE environ

\* EnvironParameterHandler.get_param_name
get_param_name_derived(p) == Upper(Replace(PathStr(p), ".", "_"))
get_param_name(p) ==
    IF var_name[p] # NoneV THEN var_name[p].s
    ELSE Upper(Replace(PathStr(p), ".", "_"))

\* self.environ.get(name, None), for the mapping e as self.environ.
environ_get(e, p) == Get(e, get_param_name(p))

\* EnvironParameterHandler.handle_parameter
environ_handle_parameter(rw, p) ==
    LET value == environ_get(HandlerEnviron, p)
    IN  IF value # NoneV THEN fset(rw, p, value).raw ELSE rw

\* ParameterHandler.handle: every parameter of the list, then its children.
RECURSIVE environ_handle(_, _, _)
environ_handle(rw, ps, i) ==
    IF i > Len(ps) THEN rw
    ELSE LET rw1 == environ_handle_parameter(rw, ps[i])
             rw2 == IF children(data, ps[i]) # <<>>
                    THEN environ_handle(rw1, children(data, ps[i]), 1)
                    ELSE rw1
         IN  environ_handle(rw2, ps, i + 1)

\* The handler on its own, as the tests use it: a tree is built with add(),
\* some parameters with a var_name, and handle() is called on its root.
FOO == <<"F","O","O">>
EnvironNames == {foo, path, FOO}
non_default_name == <<"k","e","y">>
VarNames == {NoneV, StrV(non_default_name)}
HandlerEnvirons ==
    {{<<Upper(foo), <<"1">>>>, <<Upper(foo) \o <<"_">> \o Upper(path), <<"2">>>>, <<non_default_name, <<"3">>>>},
     {<<Upper(foo) \o <<"_">> \o Upper(path), <<"2">>>>},
     {<<Upper(foo), <<"1">>>>, <<Upper(non_default_name), <<"3">>>>}}

InitEnviron ==
    /\ nodes = {0}
    /\ name = [n \in NodeIds |-> IF n = 0 THEN root ELSE <<>>]
    /\ default = [n \in NodeIds |-> NoneV]
    /\ coerce = [n \in NodeIds |-> "None"]
    /\ raw = [n \in NodeIds |-> Nothing]
    /\ parent = [n \in NodeIds |-> NoNode]
    /\ data = [n \in NodeIds |-> EmptyData]
    /\ action = [n \in NodeIds |-> "store"]
    /\ call = NoCall
    /\ argv = <<>>
    /\ environ \in HandlerEnvirons
    /\ osenviron = {}
    /\ pc = "setup"
    /\ args = <<>>
    /\ raised = "ok"
    /\ NoCli
    /\ NoEnv
    /\ NoRun
    /\ NoLog
    /\ NoConf

\* self.add(name, var_name=...): the keyword becomes an attribute of the new
\* parameter.
AddVar(self, nm, vn) ==
    /\ pc = "setup"
    /\ NewNode < MaxNodes
    /\ Construct(NewNode, nm, NoneV, "None", "store")
    /\ var_name' = [var_name EXCEPT ![NewNode] = vn]
    /\ LET r == add(self, NewNode, nm)
       IN  /\ parent' = r.parent
           /\ data' = r.data
           /\ call' = [NoCall EXCEPT !.op = "add", !.self = self, !.key = nm,
                          !.node = NewNode, !.was = data[self][nm],
                          !.len = Len(children(data, self)), !.err = r.err]
    /\ UNCHANGED pc

\* handler.handle(app, root)
Handle ==
    /\ pc = "setup"
    /\ raw' = environ_handle(raw, children(data, 0), 1)
    /\ pc' = "handled"
    /\ call' = [NoCall EXCEPT !.op = "environ"]
    /\ UNCHANGED <<nodes, name, default, coerce, parent, data, action, var_name>>

NextEnviron ==
    /\ UNCHANGED <<argv, environ, osenviron, args, raised, cliVars, runVars, logVars, confVars>>
    /\ \/ \E self \in nodes, nm \in EnvironNames, vn \in VarNames : AddVar(self, nm, vn)
       \/ Handle

SpecEnviron == InitEnviron /\ [][NextEnviron]_vars

\* ---------------------------------------------------- CLIParameterHandler

\* The module-level Default, a DefaultSentinel: an int equal to 0 that is
\* told apart by identity.
Default == [t |-> "DefaultSentinel", s |-> <<>>, n |-> 0]

\* "opt is not Default" in CLIParameterHandler.handle
ExplicitAlways(opt) == TRUE
Explicit(opt) == opt # Default

\* CLIParameterHandler.handle_parameter: register the option of p with the
\* handler's current parser.
cli_handle_parameter(options, p) ==
    LET nm == Replace(PathStr(p), ".", "-")
    IN  IF nm = <<>> THEN [options |-> options, err |-> "IndexError", name |-> nm]
        ELSE LET r == parser_add_option(options,
                          [short |-> <<"-", nm[1]>>, long |-> <<"-","-">> \o nm,
                           dest |-> nm, action |-> action[p], default |-> Default])
             IN  [options |-> r.options, err |-> r.err, name |-> nm]

\* The end of CLIParameterHandler.handle: parse argv with the current parser
\* and assign every value that is not the sentinel to its parameter.  A dest
\* that is not in param_map is a KeyError.
cli_update(st, pmap) ==
    LET r == parse_args(st.parser, argv)
        given == {d \in DOMAIN r.vals : Explicit(r.vals[d])}
        holder(q) == {d \in given \cap Keys(pmap) : (CHOOSE kv \in pmap : kv[1] = d)[2] = q}
    IN  IF r.err # "ok" THEN [st EXCEPT !.err = r.err]
        ELSE [st EXCEPT
                !.raw = [q \in NodeIds |->
                            IF holder(q) # {}
                            THEN fset(st.raw, q, r.vals[CHOOSE d \in holder(q) : TRUE]).raw[q]
                            ELSE st.raw[q]],
                !.args = IF given \subseteq Keys(pmap) THEN r.args ELSE st.args,
                !.err = IF given \subseteq Keys(pmap) THEN "ok" ELSE "KeyError"]

\* CLIParameterHandler.handle: a new parser in self.parser, the loop over the
\* sorted parameters (which recurses into handle for a parameter that has
\* children, and so replaces self.parser), then the parse and the update.
RECURSIVE cli_handle(_, _), cli_loop(_, _, _, _)
cli_handle(st, ps) ==
    LET looped == cli_loop([st EXCEPT !.parser = NewParser], SortedByName(ps), 1, {})
    IN  IF looped.st.err # "ok" THEN looped.st ELSE cli_update(looped.st, looped.pmap)
cli_loop(st, ps, i, pmap) ==
    IF i > Len(ps) THEN [st |-> st, pmap |-> pmap]
    ELSE LET reg == cli_handle_parameter(st.parser, ps[i])
             st1 == [st EXCEPT !.parser = reg.options, !.err = reg.err]
             pmap1 == {kv \in pmap : kv[1] # reg.name} \cup {<<reg.name, ps[i]>>}
             st2 == IF children(data, ps[i]) # <<>>
                    THEN cli_handle(st1, children(data, ps[i]))
                    ELSE st1
         IN  IF reg.err # "ok" THEN [st |-> st1, pmap |-> pmap]
             ELSE IF st2.err # "ok" THEN [st |-> st2, pmap |-> pmap1]
             ELSE cli_loop(st2, ps, i + 1, pmap1)

\* ------------------------------------------- CommandLineApp (cli/app.py)

pidfile == <<"p","i","d","f","i","l","e">>
\* The names, and the action and default, of the parameters applications add.
AppNames == {foo, path, pidfile}
Kinds ==
    {[action |-> "store", default |-> NoneV],
     [action |-> "count", default |-> IntV(0)],
     [action |-> "store_true", default |-> BoolV(FALSE)]}

x == <<"x">>
\* The command lines the application is started with.
Argvs ==
    {<<>>,
     <<<<"-","-","f","o","o","=","x">>>>,
     <<<<"-","f">>>>,
     <<<<"-","f","x">>, x>>,
     <<<<"-","p">>, x, x>>,
     <<<<"-","-","p","a","t","h">>, x, <<"-","f">>, x>>,
     <<<<"-","-","p","i">>, x>>,
     <<x, <<"-","-","f","o","o","-","p","a","t","h">>, x>>,
     <<<<"-","-">>, <<"-","f">>>>}
\* The mappings given as env, and the environment of the process.
Environs ==
    {{},
     {<<Upper(foo), <<"e">>>>, <<Upper(path), <<"e">>>>,
      <<Upper(foo) \o <<"_">> \o Upper(path), <<"e">>>>}}
OsEnvirons == {{<<Upper(path), <<"/","b","i","n">>>>}}

\* CommandLineApp.__init__ and setup: the root parameter, the two handlers.
InitApp ==
    /\ nodes = {0}
    /\ name = [n \in NodeIds |-> IF n = 0 THEN root ELSE <<>>]
    /\ default = [n \in NodeIds |-> NoneV]
    /\ coerce = [n \in NodeIds |-> "None"]
    /\ raw = [n \in NodeIds |-> Nothing]
    /\ parent = [n \in NodeIds |-> NoNode]
    /\ data = [n \in NodeIds |-> EmptyData]
    /\ action = [n \in NodeIds |-> "store"]
    /\ call = NoCall
    /\ argv \in Argvs
    /\ environ \in Environs
    /\ osenviron \in OsEnvirons
    /\ pc = "setup"
    /\ args = <<>>
    /\ raised = "ok"
    /\ NoCli
    /\ NoEnv
    /\ NoRun
    /\ NoLog
    /\ NoConf

\* The list of handlers that CommandLineApp.setup registers.
param_handlers == <<"environ", "cli">>

\* app.add_param(name, default, action=...), or add() on a parameter of the
\* application's tree, before run().
add_param(self, nm, kind) ==
    /\ pc = "setup"
    /\ NewNode < MaxNodes
    /\ Construct(NewNode, nm, kind.default, "None", kind.action)
    /\ LET r == add(self, NewNode, nm)
       IN  /\ parent' = r.parent
           /\ data' = r.data
           /\ call' = [NoCall EXCEPT !.op = "add", !.self = self, !.key = nm,
                          !.node = NewNode, !.was = data[self][nm],
                          !.len = Len(children(data, self)), !.err = r.err]
    /\ UNCHANGED appVars

\* app.add_param(name, coerce=co) before run(): a parameter of the root
\* with an explicit coercion function.
add_param_coerce(nm, co) ==
    /\ pc = "setup"
    /\ NewNode < MaxNodes
    /\ Construct(NewNode, nm, NoneV, co, "store")
    /\ LET r == add(0, NewNode, nm)
       IN  /\ parent' = r.parent
           /\ data' = r.data
           /\ call' = [NoCall EXCEPT !.op = "add", !.self = 0, !.key = nm,
                          !.node = NewNode, !.was = data[0][nm],
                          !.len = Len(children(data, 0)), !.err = r.err]
    /\ UNCHANGED appVars

\* run() -> pre_run() -> handle_parameters(): the first handler.
HandleEnviron ==
    /\ pc = "setup"
    /\ raw' = environ_handle(raw, children(data, 0), 1)
    /\ pc' = "cli"
    /\ call' = [NoCall EXCEPT !.op = "environ"]
    /\ UNCHANGED <<nodes, name, default, coerce, parent, data, action,
                   argv, environ, osenviron, args, raised>>

\* An exception raised in a step of run() leaves run(): the step that
\* follows is taken only when there was none.
swallow(err, next) == next
propagate(err, next) == IF err = "ok" THEN next ELSE "failed"

\* handle_parameters(): the second handler.
HandleCLI ==
    /\ pc = "cli"
    /\ LET st == cli_handle([parser |-> NewParser, raw |-> raw, args |-> args,
                             err |-> "ok"], children(data, 0))
       IN  /\ raw' = st.raw
           /\ args' = st.args
           /\ raised' = st.err
           /\ pc' = propagate(st.err, "resolve")
    /\ call' = [NoCall EXCEPT !.op = "cli"]
    /\ UNCHANGED <<nodes, name, default, coerce, parent, data, action,
                   argv, environ, osenviron>>

NextApp ==
    /\ UNCHANGED <<cliVars, envVars, runVars, logVars, confVars>>
    /\ \/ \E self \in nodes, nm \in AppNames, kind \in Kinds : add_param(self, nm, kind)
       \/ HandleEnviron
       \/ HandleCLI

SpecApp == InitApp /\ [][NextApp]_vars

\* ------------------------------------------------------------ the resolver

\* setattr(holder, nm, v) on a Parameter: the attribute of the instance,
\* which the register of children does not hold.
SetAttr(res, holder, nm, v) ==
    {a \in res : ~(a[1] = holder /\ a[2] = nm)} \cup {<<holder, nm, v>>}
\* getattr(holder, nm): a property of the class first, then the attribute
\* of the instance when there is one, the child registered under the name
\* otherwise.
GetAttr(res, holder, nm) ==
    IF nm \in ReservedNames THEN [kind |-> "property", v |-> holder]
    ELSE IF \E a \in res : a[1] = holder /\ a[2] = nm
    THEN [kind |-> "value", v |-> (CHOOSE a \in res : a[1] = holder /\ a[2] = nm)[3]]
    ELSE IF data[holder][nm] # NoNode THEN [kind |-> "node", v |-> data[holder][nm]]
    ELSE [kind |-> "missing", v |-> NoNode]

\* CommandLineApp.resolve_parameter: path holds the names, so the walk
\* through path[:-1] asks a str for its name; setattr on a property that
\* has no setter fails.
resolve_parameter(res, p) ==
    IF Len(PathOf(p)) > 1 THEN [res |-> res, err |-> "AttributeError"]
    ELSE IF IsRaised(get_value(p)) THEN [res |-> res, err |-> get_value(p).t]
    ELSE IF name[p] \in ReservedNames THEN [res |-> res, err |-> "AttributeError"]
    ELSE [res |-> SetAttr(res, 0, name[p], get_value(p)), err |-> "ok"]

\* CommandLineApp.resolve_parameters, from the i-th parameter of the list on.
RECURSIVE resolve_parameters(_, _, _)
resolve_parameters(res, ps, i) ==
    IF i > Len(ps) THEN [res |-> res, err |-> "ok"]
    ELSE LET r == IF children(data, ps[i]) # <<>>
                  THEN resolve_parameters(res, children(data, ps[i]), 1)
                  ELSE resolve_parameter(res, ps[i])
         IN  IF r.err # "ok" THEN r ELSE resolve_parameters(r.res, ps, i + 1)

\* The resolver called on the tree of an application, as handle_parameters
\* calls it after the handlers, here with no handler run:
\* app.resolve_parameters(app.params), and a second time.
ResolveNames == {foo, path}
InitResolve ==
    /\ nodes = {0}
    /\ name = [n \in NodeIds |-> IF n = 0 THEN root ELSE <<>>]
    /\ default = [n \in NodeIds |-> NoneV]
    /\ coerce = [n \in NodeIds |-> "None"]
    /\ raw = [n \in NodeIds |-> Nothing]
    /\ parent = [n \in NodeIds |-> NoNode]
    /\ data = [n \in NodeIds |-> EmptyData]
    /\ action = [n \in NodeIds |-> "store"]
    /\ call = NoCall
    /\ argv = <<>>
    /\ environ = {}
    /\ osenviron = {}
    /\ pc = "setup"
    /\ args = <<>>
    /\ raised = "ok"
    /\ NoCli
    /\ NoEnv
    /\ NoRun
    /\ NoLog
    /\ NoConf

\* app.params.<...>.value = v, before the resolver runs
AssignValue(p, v) ==
    /\ pc = "setup"
    /\ p # 0
    /\ SetValue(p, v)
    /\ UNCHANGED <<pc, resolved>>

\* app.resolve_parameters(app.params); the call record keeps what the
\* attributes were before the call.
ResolveParameters ==
    /\ pc \in {"setup", "resolved"}
    /\ call.nth < MaxReads
    /\ LET r == resolve_parameters(resolved, children(data, 0), 1)
       IN  /\ resolved' = r.res
           /\ call' = [NoCall EXCEPT !.op = "resolve", !.val = resolved,
                          !.nth = IF pc = "setup" THEN 1 ELSE call.nth + 1,
                          !.err = r.err]
    /\ pc' = "resolved"
    /\ UNCHANGED treeVars

NextResolve ==
    /\ UNCHANGED <<argv, environ, osenviron, args, raised, cliVars, envVars, logVars, confVars,
                   main, exit_after_main, invoked, result>>
    /\ \/ \E self \in nodes, nm \in ResolveNames, kind \in Kinds :
             add_param(self, nm, kind) /\ UNCHANGED <<pc, resolved>>
       \/ \E p \in nodes, v \in {StrV(<<"5">>), StrV(<<"n","o">>)} : AssignValue(p, v)
       \/ ResolveParameters

SpecResolve == InitResolve /\ [][NextResolve]_vars

\* ------------------------------------------------------------------- run()

\* sys.exit(v) at the end of the process: the exit status the interpreter
\* gives for SystemExit(v).
exit_status(v) ==
    IF v = NoneV THEN 0
    ELSE IF v.t \in {"int", "bool"} THEN v.n
    ELSE 1

\* CommandLineApp.post_run
post_run_return(exits, returned) == [t |-> "returned", v |-> returned]
post_run(exits, returned) ==
    IF exits THEN [t |-> "exit", v |-> IntV(exit_status(returned))]
    ELSE [t |-> "returned", v |-> returned]

\* What the application is built and started with.
RunNames == {foo, path}
RunKinds ==
    {[action |-> "store", default |-> NoneV],
     [action |-> "store_true", default |-> BoolV(FALSE)]}
y == <<"y">>
RunArgvs ==
    {<<>>,
     <<<<"-","-","f","o","o">>, x, y>>,
     <<y, <<"-","f">>, x, x>>,
     <<<<"-","-">>, <<"-","f">>>>,
     <<<<"-","z">>>>}
RunEnvirons == {{<<Upper(foo), <<"e">>>>}}
Mains ==
    {[callable |-> FALSE, returns |-> NoneV]} \cup
    {[callable |-> TRUE, returns |-> r] :
        r \in {NoneV, IntV(3), StrV(<<"3">>), StrV(<<"n","o">>)}}

InitRun ==
    /\ nodes = {0}
    /\ name = [n \in NodeIds |-> IF n = 0 THEN root ELSE <<>>]
    /\ default = [n \in NodeIds |-> NoneV]
    /\ coerce = [n \in NodeIds |-> "None"]
    /\ raw = [n \in NodeIds |-> Nothing]
    /\ parent = [n \in NodeIds |-> NoNode]
    /\ data = [n \in NodeIds |-> EmptyData]
    /\ action = [n \in NodeIds |-> "store"]
    /\ call = NoCall
    /\ argv \in RunArgvs
    /\ environ \in RunEnvirons
    /\ osenviron = {}
    /\ pc = "setup"
    /\ args = <<>>
    /\ raised = "ok"
    /\ NoCli
    /\ NoEnv
    /\ NoLog
    /\ NoConf
    /\ resolved = {}
    /\ main \in Mains
    /\ exit_after_main \in BOOLEAN
    /\ invoked = <<>>
    /\ result = NoResult

\* handle_parameters(): the resolver, after the handlers.
Resolve ==
    /\ pc = "resolve"
    /\ LET r == resolve_parameters(resolved, children(data, 0), 1)
       IN  /\ resolved' = r.res
           /\ raised' = r.err
           /\ pc' = propagate(r.err, "main")
           /\ call' = [NoCall EXCEPT !.op = "resolve", !.val = resolved, !.nth = 1,
                          !.err = r.err]
    /\ UNCHANGED <<treeVars, argv, environ, osenviron, args, main, exit_after_main,
                   invoked, result>>

\* returned = self.main(self, *self.args)
Main ==
    /\ pc = "main"
    /\ IF main.callable
       THEN /\ invoked' = Append(invoked, args)
            /\ raised' = "ok"
            /\ pc' = "post_run"
       ELSE /\ invoked' = invoked
            /\ raised' = "TypeError"
            /\ pc' = "failed"
    /\ call' = [NoCall EXCEPT !.op = "main", !.err = raised']
    /\ UNCHANGED <<treeVars, argv, environ, osenviron, args, resolved, main,
                   exit_after_main, result>>

\* return self.post_run(returned)
PostRun ==
    /\ pc = "post_run"
    /\ result' = post_run(exit_after_main, main.returns)
    /\ pc' = "done"
    /\ call' = [NoCall EXCEPT !.op = "post_run"]
    /\ UNCHANGED <<treeVars, argv, environ, osenviron, args, raised, resolved, main,
                   exit_after_main, invoked>>

NextRun ==
    /\ UNCHANGED <<cliVars, envVars, logVars, confVars>>
    /\ \/ \E self \in nodes, nm \in RunNames, kind \in RunKinds :
             add_param(self, nm, kind) /\ UNCHANGED runVars
       \/ add_param_coerce(foo, "int") /\ UNCHANGED runVars
       \/ HandleEnviron /\ UNCHANGED runVars
       \/ HandleCLI /\ UNCHANGED runVars
       \/ Resolve
       \/ Main
       \/ PostRun

SpecRun == InitRun /\ [][NextRun]_vars

\* --------------------------------------------------------------- CLILogger

\* The levels of the logging module.
DEBUG == 10
WARN == 30
CRITICAL == 50
\* CLILogger.default_level, CLILogger.silent_level
default_level == WARN
silent_level == CRITICAL

\* CLILogger.setLevel(opts=o)
setLevel_unclamped(o) ==
    IF o.silent THEN silent_level
    ELSE default_level + (10 * (o.quiet - o.verbose))
setLevel(o) ==
    LET lv == default_level + (10 * (o.quiet - o.verbose))
    IN  IF o.silent THEN silent_level
        ELSE IF lv <= NOTSET THEN DEBUG
        ELSE lv

\* LoggingApp: the logger is created, setup() gives it the default level,
\* pre_run() the level of the resolved options.
InitLevel ==
    /\ nodes = {0}
    /\ name = [n \in NodeIds |-> IF n = 0 THEN root ELSE <<>>]
    /\ default = [n \in NodeIds |-> NoneV]
    /\ coerce = [n \in NodeIds |-> "None"]
    /\ raw = [n \in NodeIds |-> Nothing]
    /\ parent = [n \in NodeIds |-> NoNode]
    /\ data = [n \in NodeIds |-> EmptyData]
    /\ action = [n \in NodeIds |-> "store"]
    /\ call = NoCall
    /\ argv = <<>>
    /\ environ = {}
    /\ osenviron = {}
    /\ pc = "setup"
    /\ args = <<>>
    /\ raised = "ok"
    /\ NoCli
    /\ NoEnv
    /\ NoRun
    /\ opts \in [verbose : 0 .. MaxCount, quiet : 0 .. MaxCount, silent : BOOLEAN]
    /\ level = NOTSET
    /\ NoConf

\* self.log.setLevel(self.log.default_level): opts is None, the level is
\* set as given.
SetLevelPlain ==
    /\ pc = "setup"
    /\ level' = default_level
    /\ pc' = "pre_run"
    /\ call' = [NoCall EXCEPT !.op = "setLevel", !.nth = 1]
    /\ UNCHANGED opts

\* self.log.setLevel(opts=self.params)
SetLevelOpts ==
    /\ pc = "pre_run"
    /\ level' = setLevel(opts)
    /\ pc' = "done"
    /\ call' = [NoCall EXCEPT !.op = "setLevel", !.nth = 2]
    /\ UNCHANGED opts

NextLevel ==
    /\ UNCHANGED <<treeVars, argv, environ, osenviron, args, raised, cliVars, envVars, runVars,
                   confVars>>
    /\ \/ SetLevelPlain
       \/ SetLevelOpts

SpecLevel == InitLevel /\ [][NextLevel]_vars

\* ------------------------------------------------------- Values (cli.py)

\* The Values tree: a set of <<path, value>> entries, path the sequence of
\* attribute names from the root Values; an inner Values object is the entry
\* whose value is ValuesNode.
ValuesNode == [t |-> "Values", s |-> <<>>, n |-> 0]
Lookup(tree, pth) ==
    IF \E e \in tree : e[1] = pth THEN (CHOOSE e \in tree : e[1] = pth)[2] ELSE Nothing

\* Names that hasattr() finds on every Values object: class attributes and
\* methods, which are not Values objects.
ValuesClassAttrs ==
    {<<"a","r","g","s">>, <<"d","e","l","i","m">>, <<"d","a","t","a">>, <<"s","e","t">>}

\* Values.set(name, value)
RECURSIVE values_walk(_, _, _, _)
values_walk(tree, segs, k, value) ==
    LET pre == SubSeq(segs, 1, k)
    IN  IF k = Len(segs)
        THEN [tree |-> {e \in tree : ~StartsWith(e[1], pre)} \cup {<<pre, value>>},
              err |-> "ok"]
        ELSE IF segs[k] \in ValuesClassAttrs /\ Lookup(tree, pre) = Nothing
        THEN [tree |-> tree, err |-> "AttributeError"]
        ELSE IF Lookup(tree, pre) = Nothing
        THEN values_walk(tree \cup {<<pre, ValuesNode>>}, segs, k + 1, value)
        ELSE IF Lookup(tree, pre) = ValuesNode
        THEN values_walk(tree, segs, k + 1, value)
        ELSE [tree |-> tree, err |-> "AttributeError"]
values_set(tree, nm, value) == values_walk(tree, Split(nm, "."), 1, value)

\* A handler's loop of values.set calls over <<name, value>> pairs.
RECURSIVE set_all(_, _)
set_all(tree, pairs) ==
    IF pairs = <<>> THEN [tree |-> tree, err |-> "ok"]
    ELSE LET r == values_set(tree, pairs[1][1], pairs[1][2])
         IN  IF r.err # "ok" THEN r ELSE set_all(r.tree, Tail(pairs))

\* The pairs of a dict in the order of their keys.  (A dict lists them in
\* hash order; the order matters only when one name is the prefix of
\* another.)
RECURSIVE InKeyOrder(_)
InKeyOrder(pairs) ==
    IF pairs = {} THEN <<>>
    ELSE LET first == CHOOSE kv \in pairs : \A o \in pairs : ~StrLess(o[1], kv[1])
         IN  <<first>> \o InKeyOrder(pairs \ {first})

\* ------------------------------------------------ CommandLineApp (cli.py)

\* self.name: the func_name of main.
appname == <<"a","p","p">>

\* The attributes that CommandLineApp, LoggingApp and their instances have.
AppAttrs ==
    {"values_factory", "optparser_factory", "main", "config_file", "argv", "env",
     "exit_after_main", "stdin", "stdout", "stderr", "parser", "raw_values",
     "values_handlers", "setup", "name", "add_option", "values",
     "config_values_handler", "env_values_handler", "cli_values_handler",
     "opts", "args", "usage", "pre_run", "run", "logfile", "stream",
     "message_format", "date_format", "log"}
HasAttr(attr) == attr \in AppAttrs

\* CommandLineApp.add_option
add_option(options, nm, kind) ==
    LET first == <<"-", nm[1]>>
        short == IF has_option(options, first)
                 THEN <<"-", UpperChar(first[Len(first)])>>
                 ELSE first
    IN  parser_add_option(options,
            [short |-> short, long |-> <<"-","-">> \o Replace(nm, "_", "-"),
             dest |-> nm, action |-> kind.action, default |-> kind.default])

\* CommandLineApp.config_values_handler
config_values_handler(tree) ==
    IF ~config.given \/ config.items = {} THEN [tree |-> tree, err |-> "ok"]
    ELSE IF ~HasAttr("delim") THEN [tree |-> tree, err |-> "AttributeError"]
    ELSE set_all(tree, InKeyOrder({<<Join(".", <<i[1], i[2]>>), StrV(i[3])>> : i \in config.items}))

\* CommandLineApp.env_values_handler
env_values_handler(tree) ==
    LET ours == {kv \in env.items : StartsWith(Lower(kv[1]), Lower(appname) \o <<"_">>)}
        stripped == {<<Join("_", Tail(Split(kv[1], "_"))), kv[2]>> : kv \in ours}
    IN  IF ~env.given \/ ours = {} THEN [tree |-> tree, err |-> "ok"]
        ELSE IF ~HasAttr("delim") THEN [tree |-> tree, err |-> "AttributeError"]
        ELSE set_all(tree, InKeyOrder({<<Join(".", Split(Lower(kv[1]), "_")), StrV(kv[2])>> :
                                          kv \in stripped}))

\* CommandLineApp.cli_values_handler: every option of the parsed command
\* line is set, the ones left at their default included.
cli_values_handler(tree) ==
    LET r == parse_args(parser, argv)
    IN  IF r.err # "ok" THEN [tree |-> tree, err |-> r.err]
        ELSE set_all(tree, InKeyOrder({<<d, r.vals[d]>> : d \in DOMAIN r.vals}))

foo_path == foo \o <<".">> \o path
\* The names, and the action and default, of the options applications add.
host == <<"h","o","s","t">>
OptionNames == {foo_path, path, pidfile, host, host \o <<"s">>}
OptionKinds ==
    {[action |-> "store", default |-> StrV(<<"d">>)],
     [action |-> "count", default |-> IntV(0)],
     [action |-> "store_true", default |-> BoolV(FALSE)]}
\* What the configuration file, the env mapping and the command line hold.
Configs ==
    {[given |-> FALSE, items |-> {}],
     [given |-> TRUE, items |-> {}],
     [given |-> TRUE, items |-> {<<foo, path, <<"c">>>>}]}
Envs ==
    {[given |-> FALSE, items |-> {}],
     [given |-> TRUE, items |-> {<<Upper(appname) \o <<"_">> \o Upper(foo) \o <<"_">> \o Upper(path),
                                  <<"e">>>>}],
     [given |-> TRUE, items |-> {<<Upper(foo) \o <<"_">> \o Upper(path), <<"e">>>>}]}
ValuesArgvs ==
    {<<>>,
     <<<<"-","-">> \o foo_path \o <<"=","x">>>>,
     <<<<"-","p">>, x>>,
     <<x>>}

\* CommandLineApp.__init__ (cli.py)
InitValues ==
    /\ nodes = {0}
    /\ name = [n \in NodeIds |-> IF n = 0 THEN root ELSE <<>>]
    /\ default = [n \in NodeIds |-> NoneV]
    /\ coerce = [n \in NodeIds |-> "None"]
    /\ raw = [n \in NodeIds |-> Nothing]
    /\ parent = [n \in NodeIds |-> NoNode]
    /\ data = [n \in NodeIds |-> EmptyData]
    /\ action = [n \in NodeIds |-> "store"]
    /\ call = NoCall
    /\ argv \in ValuesArgvs
    /\ environ = {}
    /\ osenviron = {}
    /\ pc = "setup"
    /\ args = <<>>
    /\ raised = "ok"
    /\ parser = NewParser
    /\ config \in Configs
    /\ env \in Envs
    /\ values = {}
    /\ NoEnv
    /\ NoRun
    /\ NoLog
    /\ NoConf

\* app.add_option(name, default, help, action)
AddOption(nm, kind) ==
    /\ pc = "setup"
    /\ Len(parser) <= MaxOptions
    /\ LET r == add_option(parser, nm, kind)
       IN  /\ parser' = r.options
           /\ call' = [NoCall EXCEPT !.op = "add_option", !.key = nm, !.err = r.err]
    /\ UNCHANGED <<treeVars, appVars, config, env, values>>

\* One step of the values property: the handler, then where it leaves the
\* evaluation.
ValuesStep(here, r, next) ==
    /\ pc = here
    /\ values' = r.tree
    /\ raised' = r.err
    /\ pc' = IF r.err = "ok" THEN next ELSE "failed"
    /\ call' = [NoCall EXCEPT !.op = here, !.err = r.err]
    /\ UNCHANGED <<treeVars, argv, environ, osenviron, args, parser, config, env>>

\* The values property: values_factory(), then the handlers in the order of
\* values_handlers.
ConfigValues == ValuesStep("setup", config_values_handler({}), "env")
EnvValues == ValuesStep("env", env_values_handler(values), "cli")
CliValues == ValuesStep("cli", cli_values_handler(values), "done")

\* values.args: the class attribute [] of Values, unless a handler has set
\* an option of that name.
values_args(tree) ==
    IF Lookup(tree, <<<<"a","r","g","s">>>>) = Nothing THEN <<>>
    ELSE <<Lookup(tree, <<<<"a","r","g","s">>>>)>>

\* run() of cli.py, once the values are there:
\* self.main(self, *self.args, **self.opts)
RunMain ==
    /\ pc = "done"
    /\ invoked' = Append(invoked, values_args(values))
    /\ pc' = "ran"
    /\ call' = [NoCall EXCEPT !.op = "main"]
    /\ UNCHANGED <<treeVars, argv, environ, osenviron, args, raised, cliVars,
                   resolved, main, exit_after_main, result>>

NextValues ==
    /\ UNCHANGED <<envVars, logVars, confVars>>
    /\ \/ \E nm \in OptionNames, kind \in OptionKinds :
             AddOption(nm, kind) /\ UNCHANGED runVars
       \/ ConfigValues /\ UNCHANGED runVars
       \/ EnvValues /\ UNCHANGED runVars
       \/ CliValues /\ UNCHANGED runVars
       \/ RunMain

SpecValues == InitValues /\ [][NextValues]_vars

\* ---------------------------------------- lib/cli/config.py: the parsers

\* The other classes know nothing of lib/cli/config.py.
NoParams ==
    /\ nodes = {0}
    /\ name = [n \in NodeIds |-> IF n = 0 THEN root ELSE <<>>]
    /\ default = [n \in NodeIds |-> NoneV]
    /\ coerce = [n \in NodeIds |-> "None"]
    /\ raw = [n \in NodeIds |-> Nothing]
    /\ parent = [n \in NodeIds |-> NoNode]
    /\ data = [n \in NodeIds |-> EmptyData]
    /\ action = [n \in NodeIds |-> "store"]
    /\ call = NoCall
    /\ argv = <<>>
    /\ environ = {}
    /\ osenviron = {}
    /\ pc = "setup"
    /\ args = <<>>
    /\ raised = "ok"
    /\ NoCli
    /\ NoEnv
    /\ NoRun
    /\ NoLog

\* A configuration file is a sequence of blocks; a block has a name and a
\* sequence of <<key, value>> entries, and a value is spelled as a string or
\* as a number.  In the ini format a block is a "[name]" line and its
\* "key = value" lines, in JSON a member "name": {"key": value} of the
\* root object, in the Python format an assignment name = {"key": value}.
\*
\* A parsed configuration is a dictionary of dictionaries: a set of
\* <<section, items>> pairs, items a set of <<key, value>> pairs.

UniV(s) == [t |-> "unicode", s |-> s, n |-> 0]

\* dict[k] = v
Put(m, k, v) == {kv \in m : kv[1] # k} \cup {<<k, v>>}
\* dict.get(k, {})
Items(m, k) == IF k \in Keys(m) THEN (CHOOSE kv \in m : kv[1] = k)[2] ELSE {}

\* dict.items(): the pairs in the order the dictionary lists them.
RECURSIVE DictItems(_)
DictItems(m) ==
    IF m = {} THEN <<>>
    ELSE LET kv == CHOOSE e \in m : TRUE IN <<kv>> \o DictItems(m \ {kv})

\* str(v) and the text of a value in an ini file.
Str(v) == IF v.t = "int" THEN <<Digits[v.n + 1]>> ELSE v.s

\* ConfigParser.DEFAULTSECT
DEFAULTSECT == <<"D","E","F","A","U","L","T">>

\* ConfigParser._read and ConfigParser.set: the option name goes through
\* optionxform (lower), a section met again is continued, the DEFAULT
\* section fills the defaults.
RECURSIVE ini_set_all(_, _, _)
ini_set_all(items, entries, i) ==
    IF i > Len(entries) THEN items
    ELSE ini_set_all(Put(items, Lower(entries[i][1]), StrV(Str(entries[i][2]))),
                     entries, i + 1)

RECURSIVE ini_readfp(_, _, _)
ini_readfp(file, i, st) ==
    IF i > Len(file) THEN st
    ELSE LET b == file[i] IN
         IF b.name = DEFAULTSECT
         THEN ini_readfp(file, i + 1,
                  [st EXCEPT !.defaults = ini_set_all(st.defaults, b.items, 1)])
         ELSE ini_readfp(file, i + 1,
                  [st EXCEPT !.sections =
                      Put(st.sections, b.name,
                          ini_set_all(Items(st.sections, b.name), b.items, 1))])

\* IniConfigParser.read: dict((s, dict(parser.items(s))) for s in
\* parser.sections()); items(s) is the defaults updated with the section.
ini_read(file) ==
    LET st == ini_readfp(file, 1, [defaults |-> {}, sections |-> {}])
    IN  {<<sec[1], sec[2] \cup {d \in st.defaults : d[1] \notin Keys(sec[2])}>> :
            sec \in st.sections}

\* IniConfigParser.write: add_section refuses DEFAULT in any case, set
\* stores each value, write spells a section as its header and its options.
ini_write_checked(cfg) ==
    [err |-> "ok",
     file |-> [i \in DOMAIN DictItems(cfg) |->
                  [name |-> DictItems(cfg)[i][1],
                   items |-> [j \in DOMAIN DictItems(DictItems(cfg)[i][2]) |->
                       LET kv == DictItems(DictItems(cfg)[i][2])[j]
                       IN  <<Lower(kv[1]), StrV(Str(kv[2]))>>]]]]
ini_write(cfg) ==
    IF \E sec \in cfg : Lower(sec[1]) = Lower(DEFAULTSECT)
    THEN [err |-> "ValueError", file |-> <<>>]
    ELSE ini_write_checked(cfg)

\* json.load: a member met again replaces the one before, a string is a
\* unicode object, a number an int.
json_value(lit) == IF lit.t = "int" THEN lit ELSE UniV(lit.s)
RECURSIVE json_object(_, _, _)
json_object(items, entries, i) ==
    IF i > Len(entries) THEN items
    ELSE json_object(Put(items, entries[i][1], json_value(entries[i][2])), entries, i + 1)

RECURSIVE json_load(_, _, _)
json_load(file, i, cfg) ==
    IF i > Len(file) THEN cfg
    ELSE json_load(file, i + 1, Put(cfg, file[i].name, json_object({}, file[i].items, 1)))

\* JSONConfigParser.read
json_read(file) == json_load(file, 1, {})

\* JSONConfigParser.write: json.dump spells str and unicode as a string, an
\* int as a number.
json_write(cfg) ==
    [err |-> "ok",
     file |-> [i \in DOMAIN DictItems(cfg) |->
                  [name |-> DictItems(cfg)[i][1],
                   items |-> [j \in DOMAIN DictItems(DictItems(cfg)[i][2]) |->
                       LET kv == DictItems(DictItems(cfg)[i][2])[j]
                       IN  <<kv[1], IF kv[2].t = "int" THEN kv[2] ELSE StrV(kv[2].s)>>]]]]

\* A dictionary display: a key met again takes the later value.
RECURSIVE python_dict(_, _, _)
python_dict(items, entries, i) ==
    IF i > Len(entries) THEN items
    ELSE python_dict(Put(items, entries[i][1], entries[i][2]), entries, i + 1)

\* exec config.read() in _locals: an assignment binds the name anew.
RECURSIVE python_exec(_, _, _)
python_exec(file, i, locals) ==
    IF i > Len(file) THEN locals
    ELSE python_exec(file, i + 1,
             Put(locals, file[i].name, python_dict({}, file[i].items, 1)))

\* PythonConfigParser.read: the names bound that do not start with "__".
python_read(file) ==
    {kv \in python_exec(file, 1, {}) : ~StartsWith(kv[1], <<"_", "_">>)}

\* PythonConfigParser.write: "%s = " % k and pprint(items), the repr of
\* each key and value.
python_write(cfg) ==
    [err |-> "ok",
     file |-> [i \in DOMAIN DictItems(cfg) |->
                  [name |-> DictItems(cfg)[i][1],
                   items |-> DictItems(DictItems(cfg)[i][2])]]]

\* parser.read(config) and parser.write(config, buffer) of the class named.
parser_read(cls, file) ==
    CASE cls = "IniConfigParser" -> ini_read(file)
      [] cls = "JSONConfigParser" -> json_read(file)
      [] OTHER -> python_read(file)
parser_write(cls, cfg) ==
    CASE cls = "IniConfigParser" -> ini_write(cfg)
      [] cls = "JSONConfigParser" -> json_write(cfg)
      [] OTHER -> python_write(cfg)

\* The files read: two blocks of one entry each.
ParserClasses == {"IniConfigParser", "JSONConfigParser", "PythonConfigParser"}
BlockNames ==
    {<<"s">>, <<"d","e","f","a","u","l","t">>, DEFAULTSECT, <<"_","_","s">>}
ConfigKeys == {<<"a">>, <<"A">>, <<"b">>}
ConfigLiterals == {StrV(<<"3">>), IntV(3)}
ConfigFiles ==
    {<<[name |-> n1, items |-> <<<<k1, v1>>>>], [name |-> n2, items |-> <<<<k2, v2>>>>]>> :
        n1 \in BlockNames, n2 \in BlockNames, k1 \in ConfigKeys, k2 \in ConfigKeys,
        v1 \in ConfigLiterals, v2 \in ConfigLiterals}

\* self.parser = self.parser_cls(); self.configfile = StringIO(self.configstr)
InitParsers ==
    /\ NoParams
    /\ parse \in [cls : ParserClasses, file : ConfigFiles, step : {"new"},
                  attrs : {{}}, parsed : {{}}, written : {<<>>}, parsed2 : {{}},
                  err : {"ok"}]
    /\ capp = NoConfigApp

\* parsed = self.parser.read(self.configfile), and later
\* parsed2 = self.parser.read(tmp).  Neither read method assigns to self.
ParserRead ==
    \/ /\ parse.step = "new"
       /\ parse' = [parse EXCEPT !.parsed = parser_read(parse.cls, parse.file),
                                 !.step = "read"]
    \/ /\ parse.step = "written"
       /\ parse' = [parse EXCEPT !.parsed2 = parser_read(parse.cls, parse.written),
                                 !.step = "reread"]

\* self.parser.write(parsed, tmp).  No write method assigns to self.
ParserWrite ==
    /\ parse.step = "read"
    /\ LET w == parser_write(parse.cls, parse.parsed)
       IN  parse' = [parse EXCEPT !.written = w.file, !.err = w.err,
                                  !.step = IF w.err = "ok" THEN "written" ELSE "failed"]

NextParsers ==
    /\ UNCHANGED <<treeVars, call, appVars, cliVars, envVars, runVars, logVars, capp>>
    /\ \/ ParserRead
       \/ ParserWrite

SpecParsers == InitParsers /\ [][NextParsers]_vars

\* ----------------------- lib/cli/log.py and lib/cli/config.py: the apps

\* LoggingApp and ConfigApp build on a CommandLineApp that keeps the
\* argparse actions it registered in self.actions, by dest, and whose
\* pre_run binds self.params to what argparse makes of argv.  The names of
\* parameters and the option strings are written as strings here; a value
\* is a Python value as everywhere.

\* add_param of the setups: LoggingApp.setup registers logfile, quiet,
\* silent and verbose, ConfigApp.setup configfile, and the application its
\* own parameter foo.
setup_actions(logfile, configfile) ==
    {<<"logfile", [kind |-> "count", default |-> logfile]>>,
     <<"quiet", [kind |-> "count", default |-> IntV(0)]>>,
     <<"silent", [kind |-> "store_true", default |-> BoolV(FALSE)]>>,
     <<"verbose", [kind |-> "count", default |-> IntV(0)]>>,
     <<"configfile", [kind |-> "store", default |-> configfile]>>,
     <<"foo", [kind |-> "store", default |-> NoneV]>>}

\* The option string that selects each parameter.
OptionStrings ==
    {<<"-l", "logfile">>, <<"-q", "quiet">>, <<"-s", "silent">>, <<"-v", "verbose">>,
     <<"-f", "configfile">>, <<"--foo", "foo">>}

\* argparse: what the action of a parameter makes of one occurrence of its
\* option string.  A count adds one to what the namespace holds, None
\* counting as 0; a store takes the next argument.
RECURSIVE argparse_consume(_, _, _, _)
argparse_consume(actions, av, i, ns) ==
    IF i > Len(av) THEN [ns |-> ns, err |-> "ok"]
    ELSE IF av[i] \notin Keys(OptionStrings) THEN [ns |-> ns, err |-> "SystemExit"]
    ELSE LET dest == Items(OptionStrings, av[i])
             cur == Items(ns, dest)
         IN  CASE Items(actions, dest).kind = "count" ->
                    IF cur = NoneV
                    THEN argparse_consume(actions, av, i + 1, Put(ns, dest, IntV(1)))
                    ELSE IF cur.t \in {"int", "bool"}
                    THEN argparse_consume(actions, av, i + 1, Put(ns, dest, IntV(cur.n + 1)))
                    ELSE [ns |-> ns, err |-> "TypeError"]
               [] Items(actions, dest).kind = "store_true" ->
                    argparse_consume(actions, av, i + 1, Put(ns, dest, BoolV(TRUE)))
               [] OTHER ->
                    IF i + 1 > Len(av) THEN [ns |-> ns, err |-> "SystemExit"]
                    ELSE argparse_consume(actions, av, i + 2,
                             Put(ns, dest, StrV(<<av[i + 1]>>)))

\* ArgumentParser.parse_args: the namespace starts from the default of
\* every action.
argparse_parse_args(actions, av) ==
    argparse_consume(actions, av, 1, {<<a[1], a[2].default>> : a \in actions})

\* CommandLineLogger.setLevel(ns)
log_setLevel(ns) ==
    LET q == Items(ns, "quiet")
        v == Items(ns, "verbose")
    IN  IF q.t \notin {"int", "bool"} \/ v.t \notin {"int", "bool"}
        THEN [err |-> "TypeError", level |-> NOTSET]
        ELSE [err |-> "ok",
              level |-> setLevel([verbose |-> v.n, quiet |-> q.n,
                                  silent |-> Boolean(Items(ns, "silent")) = BoolV(TRUE)])]

\* The handler that LoggingApp.pre_run adds.
main_handler(a) ==
    IF a.logfile # NoneV THEN <<"FileHandler">>
    ELSE IF a.stream # NoneV THEN <<"StreamHandler">>
    ELSE <<>>

\* LoggingApp.pre_run
logging_pre_run_append(a) ==
    LET r == argparse_parse_args(a.actions, a.argv)
        lv == log_setLevel(r.ns)
        hs == a.handlers \o main_handler(a)
    IN  IF r.err # "ok" THEN [a EXCEPT !.err = r.err]
        ELSE IF lv.err # "ok" THEN [a EXCEPT !.params = r.ns, !.err = lv.err]
        ELSE [a EXCEPT !.params = r.ns, !.level = lv.level, !.runs = @ + 1,
                       !.handlers = IF hs = <<>> THEN <<"NullHandler">> ELSE hs]
logging_pre_run(a) ==
    LET r == argparse_parse_args(a.actions, a.argv)
        lv == log_setLevel(r.ns)
        hs == main_handler(a)
    IN  IF r.err # "ok" THEN [a EXCEPT !.err = r.err]
        ELSE IF lv.err # "ok" THEN [a EXCEPT !.params = r.ns, !.err = lv.err]
        ELSE [a EXCEPT !.params = r.ns, !.level = lv.level, !.runs = @ + 1,
                       !.handlers = IF hs = <<>> THEN <<"NullHandler">> ELSE hs]

\* ConfigApp.pre_run: the loop that gives the actions their new defaults.
RECURSIVE update_defaults(_, _, _)
update_defaults(actions, parameters, i) ==
    IF i > Len(parameters) THEN actions
    ELSE LET k == parameters[i][1]
             v == parameters[i][2]
         IN  IF k \notin Keys(actions) THEN update_defaults(actions, parameters, i + 1)
             ELSE update_defaults(Put(actions, k, [Items(actions, k) EXCEPT !.default = v]),
                                  parameters, i + 1)

\* ConfigApp.pre_run
config_pre_run(a) ==
    LET first == logging_pre_run(a)
        parsed == parser_read(a.configparser_factory, a.configfile.file)
        read == [first EXCEPT !.config = parsed]
    IN  IF first.err # "ok" THEN first
        ELSE IF Items(first.params, "configfile") = NoneV THEN first
        ELSE IF "parameters" \notin Keys(parsed) THEN read
        ELSE logging_pre_run(
                 [read EXCEPT !.actions =
                     update_defaults(@, DictItems(Items(parsed, "parameters")), 1)])

\* What the applications are built with.
MaxPreRuns == 3
AppArgvs ==
    {<<>>, <<"-v">>, <<"-v", "-v">>, <<"-q">>, <<"-s">>, <<"-l">>, <<"--foo", "x">>,
     <<"-z">>}
NoFile == [given |-> FALSE, file |-> <<>>]
AppConfigFiles ==
    {NoFile, [given |-> TRUE, file |-> <<>>]} \cup
    {[given |-> TRUE, file |-> <<[name |-> sec, items |-> <<<<k, v>>>>]>>] :
        sec \in {"parameters", "othersection"},
        k \in {"verbose", "logfile", "foo", "other"},
        v \in {IntV(3), StrV(<<"b">>)}}

\* ConfigApp.__init__ and the setup methods; the file object given as
\* configfile is the default of the configfile parameter.
InitConfigApp ==
    /\ NoParams
    /\ parse = NoParse
    /\ \E av \in AppArgvs, cf \in AppConfigFiles,
          lf \in {NoneV, StrV(<<"/">>)}, st \in {NoneV, [t |-> "file", s |-> <<>>, n |-> 1]} :
          capp = [pc |-> "setup", argv |-> av, configfile |-> cf,
                  configparser_factory |-> "JSONConfigParser",
                  logfile |-> lf, stream |-> st,
                  actions |-> setup_actions(lf, IF cf.given
                                                THEN [t |-> "file", s |-> <<>>, n |-> 3]
                                                ELSE NoneV),
                  params |-> {}, config |-> {}, handlers |-> <<>>, level |-> default_level,
                  err |-> "ok", runs |-> 0, op |-> "setup"]

\* app.pre_run() of a LoggingApp
LoggingAppPreRun ==
    /\ capp.pc \in {"setup", "ran"}
    /\ capp.runs < MaxPreRuns
    /\ LET a == logging_pre_run(capp)
       IN  capp' = [a EXCEPT !.op = "LoggingApp.pre_run",
                             !.pc = IF a.err = "ok" THEN "ran" ELSE "failed"]

\* app.pre_run() of a ConfigApp
ConfigAppPreRun ==
    /\ capp.pc \in {"setup", "ran"}
    /\ capp.runs + 1 < MaxPreRuns
    /\ LET a == config_pre_run(capp)
       IN  capp' = [a EXCEPT !.op = "ConfigApp.pre_run",
                             !.pc = IF a.err = "ok" THEN "ran" ELSE "failed"]

NextConfigApp ==
    /\ UNCHANGED <<treeVars, call, appVars, cliVars, envVars, runVars, logVars, parse>>
    /\ \/ LoggingAppPreRun
       \/ ConfigAppPreRun

SpecConfigApp == InitConfigApp /\ [][NextConfigApp]_vars

\* --------------------------------------------------- claims on the parsers

\* C21, as claimed: for each parser, writing out what a read returned
\* succeeds, reading what was written gives a dictionary equal to the first,
\* and the parser object is left as it was.
C21_AsClaimed ==
    /\ parse.step # "failed"
    /\ parse.step = "reread" => parse.parsed2 = parse.parsed
    /\ parse.attrs = {}

\* ------------------------------------------------ claims on the ConfigApp

\* What the command line alone resolves to, and whether it names a parameter.
CommandLineParams ==
    argparse_parse_args(setup_actions(capp.logfile, Items(capp.actions, "configfile").default),
                        capp.argv).ns
GivenOnCommandLine(dest) ==
    \E i \in DOMAIN capp.argv : <<capp.argv[i], dest>> \in OptionStrings

Coercion(p) ==
    IF coerce[p] # "None" THEN coerce[p]
    ELSE IF default[p].t = "bool" THEN "Boolean" ELSE "lambda"

\* C4, as claimed: a read of .value gives coerce(raw value) when a raw value
\* is set, else coerce(default) when the parameter has a coercion function,
\* else the default.
C4_AsClaimed ==
    call.op = "get_value" =>
        call.val = IF raw[call.self] # Nothing
                   THEN Apply(Coercion(call.self), raw[call.self])
                   ELSE IF coerce[call.self] # "None"
                   THEN Apply(coerce[call.self], default[call.self])
                   ELSE default[call.self]

\* C4, amended: a read of .value gives coerce(raw value) when a raw value is
\* set, and the default unchanged when none is set, with or without a
\* coercion function.
C4_Amended ==
    call.op = "get_value" =>
        call.val = IF raw[call.self] # Nothing
                   THEN Apply(Coercion(call.self), raw[call.self])
                   ELSE default[call.self]

C4_Witness ==
    /\ call.op = "get_value"
    /\ raw[call.self] = Nothing
    /\ coerce[call.self] = "int"
    /\ default[call.self] = StrV(<<"5">>)
    /\ call.val = StrV(<<"5">>)

\* C5: with no explicit coercion function and a raw value set, the value read
\* is Boolean(raw value) when the default is a bool and the raw value itself
\* when the default is of any other type.
C5_TypeDriven ==
    (call.op = "get_value" /\ coerce[call.self] = "None" /\ raw[call.self] # Nothing) =>
        call.val = IF default[call.self].t = "bool"
                   THEN Boolean(raw[call.self])
                   ELSE raw[call.self]

C5_Witness ==
    /\ call.op = "get_value"
    /\ coerce[call.self] = "None"
    /\ default[call.self] = BoolV(FALSE)
    /\ raw[call.self] = StrV(<<"Y">>)
    /\ call.val = BoolV(TRUE)

\* C6: assigning a raw value the coercion function rejects succeeds and stores
\* it; every read of .value made while that raw value is set raises, and a
\* read raises in no other case.
C6_Deferred ==
    /\ call.op = "set_value" => (call.err = "ok" /\ raw[call.self] = call.val)
    /\ call.op = "get_value" =>
          (IsRaised(call.val) <=>
              (raw[call.self] # Nothing
               /\ IsRaised(Apply(Coercion(call.self), raw[call.self]))))

C6_Witness ==
    /\ call.op = "get_value"
    /\ call.nth >= 2
    /\ raw[call.self] = StrV(<<"t","e","n">>)
    /\ call.val = Raised("ValueError")

\* ------------------------------------------- claims on cli.py's values

\* The option named nm is given a value by the configuration file, by the
\* env mapping, by the command line (as --name=value).
InConfig(nm) == config.given /\ \E i \in config.items : Join(".", <<i[1], i[2]>>) = nm
ConfigValue(nm) == StrV((CHOOSE i \in config.items : Join(".", <<i[1], i[2]>>) = nm)[3])
EnvKey(nm) == Upper(appname) \o <<"_">> \o Upper(Replace(nm, ".", "_"))
InEnv(nm) == env.given /\ EnvKey(nm) \in Keys(env.items)
OnCommandLine(nm) ==
    \E i \in DOMAIN argv : StartsWith(argv[i], <<"-","-">> \o nm \o <<"=">>)
CommandLineValue(nm) ==
    LET arg == argv[CHOOSE i \in DOMAIN argv : StartsWith(argv[i], <<"-","-">> \o nm \o <<"=">>)]
    IN  StrV(SubSeq(arg, Len(nm) + 4, Len(arg)))
Finished == pc \in {"done", "failed"}

\* C1, as claimed: with the handlers in the order configuration, environment,
\* command line, an option given a value by all three resolves to the
\* command-line value.
C1_AsClaimed ==
    \A nm \in Dests(parser) :
        (Finished /\ takes_value(OptionAt(parser, nm))
         /\ InConfig(nm) /\ InEnv(nm) /\ OnCommandLine(nm)) =>
            /\ pc = "done"
            /\ Lookup(values, Split(nm, ".")) = CommandLineValue(nm)

\* C3, as claimed: an option given a value by the configuration file or the
\* environment and absent from the command line resolves to that value.
C3_AsClaimed ==
    \A nm \in Dests(parser) :
        (Finished /\ (InConfig(nm) \/ InEnv(nm)) /\ argv = <<>>) =>
            /\ pc = "done"
            /\ Lookup(values, Split(nm, ".")) =
                  IF InEnv(nm) THEN Get(env.items, EnvKey(nm)) ELSE ConfigValue(nm)

\* The variable named k carries the application's name as its prefix.
Prefixed(k) == StartsWith(Lower(k), Lower(appname) \o <<"_">>)
\* The segments of k after the prefix, lower-cased.
SegmentsOf(k) == Tail(Split(Lower(k), "_"))

\* C27, as claimed: env_values_handler sets, for every variable of env named
\* <APPNAME>_<SEG1>_..._<SEGn>, the value at the path seg1. ... .segn in
\* lower case, and sets nothing for a variable without the prefix.
C27_AsClaimed ==
    (call.op = "env" /\ env.given) =>
        /\ call.err = "ok"
        /\ \A kv \in env.items :
              IF Prefixed(kv[1])
              THEN Lookup(values, SegmentsOf(kv[1])) = StrV(kv[2])
              ELSE /\ Lookup(values, Split(Lower(kv[1]), "_")) = Nothing
                   /\ values = config_values_handler({}).tree

\* C28, as claimed: no add_option call with a name not yet registered
\* fails; the options registered have pairwise distinct short flags; an
\* option has "-" and the first letter of its name as its short flag when
\* no option registered before it holds that flag, and "-" and the
\* capitalized letter otherwise.
C28_AsClaimed ==
    /\ (call.op = "add_option" /\ call.key \notin Dests(parser)) => call.err = "ok"
    /\ \A i, j \in DOMAIN parser : i # j => parser[i].short # parser[j].short
    /\ \A i \in DOMAIN parser :
          parser[i].dest # <<>> =>
              parser[i].short =
                  IF \E j \in 1 .. (i - 1) : parser[j].short = <<"-", parser[i].dest[1]>>
                  THEN <<"-", UpperChar(parser[i].dest[1])>>
                  ELSE <<"-", parser[i].dest[1]>>

\* ------------------------------------------- claims on the handlers

\* The flag of parameter q appears in argv: an argument is (or abbreviates)
\* its long flag, with or without "=value", or is a group of short flags that
\* holds its short flag.
LongFlag(q) == <<"-","-">> \o Replace(PathStr(q), ".", "-")
ShortLetter(q) == Replace(PathStr(q), ".", "-")[1]
FlagIn(arg, q) ==
    IF StartsWith(arg, <<"-","-">>)
    THEN LET opt == IF Find(arg, "=") > 0 THEN SubSeq(arg, 1, Find(arg, "=") - 1) ELSE arg
         IN  Len(opt) > 2 /\ StartsWith(LongFlag(q), opt)
    ELSE /\ Len(arg) > 1
         /\ arg[1] = "-"
         /\ \E i \in 2 .. Len(arg) : arg[i] = ShortLetter(q)
Passed(q) == PathStr(q) # <<>> /\ \E i \in DOMAIN argv : FlagIn(argv[i], q)

\* C2: CLIParameterHandler.handle leaves the raw value of every parameter
\* whose flag is not in argv as it was before the handler ran.
C2_Frame ==
    [][pc = "cli" => \A q \in nodes : ~Passed(q) => raw'[q] = raw[q]]_vars

C2_Witness ==
    /\ pc = "resolve"
    /\ call.op = "cli"
    /\ \E q, r \in nodes :
          /\ ~Passed(q) /\ raw[q] = StrV(<<"e">>)
          /\ Passed(r) /\ raw[r] = StrV(x)
          /\ Get(HandlerEnviron, get_param_name(r)) = StrV(<<"e">>)

\* --------------------------------------------------- claims on the paths

\* The parameters registered d levels below the root.
RECURSIVE Level(_)
Level(d) ==
    IF d = 0 THEN {0}
    ELSE {data[p][nm] : p \in Level(d - 1), nm \in NameSet} \ {NoNode}
\* The parent links from n end (at a parameter without parent) within k steps.
RECURSIVE ChainEnds(_, _)
ChainEnds(n, k) ==
    IF n = NoNode THEN TRUE
    ELSE IF k = 0 THEN FALSE
    ELSE ChainEnds(parent[n], k - 1)
\* The nodes of the path descend through the registers from a child of the
\* root.
Descends(pth) ==
    \A i \in DOMAIN pth :
        \E nm \in NameSet : data[IF i = 1 THEN 0 ELSE pth[i - 1]][nm] = pth[i]

\* C11, as claimed: a parameter attached at depth d below the root has a path
\* of length d that lists the nodes from the root's child down to itself,
\* rendered as their names joined by "."; the root's path is empty; distinct
\* parameters of the tree have distinct path strings.
C11_AsClaimed ==
    /\ PathOf(0) = <<>>
    /\ \A d \in 1 .. MaxNodes : \A c \in Level(d) :
          /\ ChainEnds(c, MaxNodes)
          /\ Len(PathOf(c)) = d
          /\ PathOf(c)[d] = c
          /\ Descends(PathOf(c))
          /\ PathStr(c) = Join(".", [i \in 1 .. d |-> name[PathOf(c)[i]]])
          /\ \A e \in UNION {Level(k) : k \in 1 .. MaxNodes} :
                (e # c /\ ChainEnds(e, MaxNodes)) => PathStr(e) # PathStr(c)

\* -------------------------------- claims on the command-line handler

\* The parameters of the tree below the root.
InTree == UNION {Level(d) : d \in 1 .. MaxNodes}
\* argv[i] is the long flag of q and argv[i + 1] the value given to it.
LongGivenAt(q, i) ==
    /\ i < Len(argv)
    /\ argv[i] = LongFlag(q)
    /\ \A j \in 1 .. (i - 1) : argv[j][1] # "-"

\* C24, as claimed: on any tree CLIParameterHandler.handle registers the
\* option of every parameter without conflict, and when argv is parsed the
\* long flag of a parameter followed by a value sets the raw value of the
\* parameter at that path to the value.
C24_AsClaimed ==
    call.op = "cli" =>
        /\ raised # "OptionConflictError"
        /\ raised = "ok" =>
              \A q \in InTree, i \in DOMAIN argv :
                  (action[q] = "store" /\ LongGivenAt(q, i)) =>
                      raw[q] = StrV(argv[i + 1])

\* -------------------------------------- claims on the environment handler

\* The segments of the path of p joined by "_" and upper-cased.
DerivedKey(p) == Upper(Join("_", [i \in DOMAIN PathOf(p) |-> name[PathOf(p)[i]]]))
\* What the mapping holds under key k, Nothing when it holds nothing.
Held(k) ==
    IF k \in Keys(HandlerEnviron)
    THEN StrV((CHOOSE kv \in HandlerEnviron : kv[1] = k)[2])
    ELSE Nothing

\* C12: after the environment handler ran, a parameter without var_name has
\* the value found under its path segments joined by "_" and upper-cased,
\* and a parameter with var_name has the value found under exactly that
\* key, whatever the mapping holds under the derived key.
C12_Keys ==
    pc = "handled" =>
        \A p \in SeqRange(children(data, 0)) :
            raw[p] = IF var_name[p] = NoneV THEN Held(DerivedKey(p))
                     ELSE Held(var_name[p].s)

C12_Witness ==
    /\ pc = "handled"
    /\ \E p \in SeqRange(children(data, 0)) :
          /\ var_name[p] = NoneV
          /\ Len(PathOf(p)) = 2
          /\ raw[p] = StrV(<<"2">>)
    /\ \E p \in SeqRange(children(data, 0)) :
          /\ var_name[p] = StrV(non_default_name)
          /\ DerivedKey(p) \in Keys(HandlerEnviron)
          /\ raw[p] = StrV(<<"3">>)

\* The environment without the variable that is the input of q.
WithoutInputOf(q) == {kv \in HandlerEnviron : kv[1] # get_param_name(q)}

\* C15, as claimed: for two parameters with distinct paths (and no var_name),
\* what the environment handler finds for one is the same whether or not
\* the environment supplies the variable of the other.
C15_AsClaimed ==
    pc = "handled" =>
        \A p \in SeqRange(children(data, 0)), q \in SeqRange(children(data, 0)) :
            (PathStr(p) # PathStr(q) /\ var_name[p] = NoneV /\ var_name[q] = NoneV) =>
                environ_get(WithoutInputOf(q), p) = environ_get(HandlerEnviron, p)

\* C26, as claimed: the environment handler built from the mapping given to
\* the application sets the raw value of exactly the parameters whose key
\* the mapping holds, to what it holds, and leaves every other raw value as
\* it was, without error, whether or not the mapping is empty.
C26_AsClaimed ==
    [][(pc = "setup" /\ pc' = "cli") =>
          /\ raised' = "ok"
          /\ \A p \in nodes :
                raw'[p] = IF p \in InTree /\ get_param_name(p) \in Keys(environ)
                          THEN Get(environ, get_param_name(p))
                          ELSE raw[p]]_vars

\* ------------------------------------------------ claims on the resolver

\* getattr along the names of the path of p, from the root.
RECURSIVE Navigate(_, _, _)
Navigate(holder, pth, i) ==
    LET got == GetAttr(resolved, holder, name[pth[i]])
    IN  IF i = Len(pth) \/ got.kind # "node" THEN got
        ELSE Navigate(got.v, pth, i + 1)
Leaves == {p \in SeqRange(children(data, 0)) : children(data, p) = <<>>}

\* C13, as claimed: after resolve_parameters has run on the tree, getattr
\* along the path of every leaf yields its value, and every parameter with
\* children is still a Parameter.
C13_AsClaimed ==
    call.op = "resolve" =>
        /\ call.err = "ok"
        /\ \A p \in Leaves :
              Navigate(0, PathOf(p), 1) = [kind |-> "value", v |-> get_value(p)]
        /\ \A p \in SeqRange(children(data, 0)) \ Leaves :
              Navigate(0, PathOf(p), 1) = [kind |-> "node", v |-> p]

\* C14, as claimed: a second run of the resolver on the unchanged tree
\* completes without error and leaves every resolved value as the first
\* run left it.
C14_AsClaimed ==
    (call.op = "resolve" /\ call.nth = 2) =>
        /\ call.err = "ok"
        /\ resolved = call.val

\* ------------------------------------------------------- claims on run()

\* The exit code the claim gives for what main returns.
Normalized(v) ==
    IF v = NoneV THEN 0
    ELSE IF v.t = "int" THEN v.n
    ELSE IF v.t = "str" /\ IsDigits(v.s) THEN DigitsValue(v.s)
    ELSE 1

\* C16, as claimed: None gives 0, an integer-coercible value that integer,
\* anything else 1; the process ends with that code when exit_after_main is
\* true, and run() returns that code when it is false.
C16_AsClaimed ==
    pc = "done" =>
        result = [t |-> IF exit_after_main THEN "exit" ELSE "returned",
                  v |-> IntV(Normalized(main.returns))]

\* C16, amended: with exit_after_main true the process ends with 0 for
\* None, the integer for an integer, and 1 for anything else, a string of
\* digits included; with exit_after_main false run() returns what main
\* returned, unchanged.
C16_Amended ==
    pc = "done" =>
        IF exit_after_main
        THEN result = [t |-> "exit",
                       v |-> IntV(IF main.returns = NoneV THEN 0
                                  ELSE IF main.returns.t = "int" THEN main.returns.n
                                  ELSE 1)]
        ELSE result = [t |-> "returned", v |-> main.returns]

C16_Witness ==
    /\ pc = "done"
    /\ exit_after_main
    /\ main.returns = StrV(<<"3">>)
    /\ result = [t |-> "exit", v |-> IntV(1)]

\* C17, as claimed: run() on an application without a callable main ends
\* with MainError, and no parameter has been given a raw value.
C17_AsClaimed ==
    (~main.callable /\ pc \in {"failed", "done"}) =>
        /\ raised = "MainError"
        /\ \A p \in nodes : raw[p] = Nothing

\* The exceptions that the handlers raise.
HandlerErrors == {"SystemExit", "OptionConflictError", "OptionError"}

Rejected(p) == raw[p] # Nothing /\ IsRaised(get_value(p))

\* C25, as claimed: a parameter whose raw input its coercion rejects, and
\* that main does not read, does not make the run fail: after the handlers
\* the resolver completes and main is the next step of run().
C25_AsClaimed ==
    (call.op = "resolve" /\ \E p \in SeqRange(children(data, 0)) : Rejected(p)) =>
        (call.err = "ok" /\ raised = "ok" /\ pc = "main")

C20_AsClaimed ==
    pc = "ran" => invoked = <<parse_args(parser, argv).args>>

\* -------------------------------------------------- claims on the logger

C29_AsClaimed ==
    pc = "done" => (DEBUG <= level /\ level <= silent_level)

\* C29, amended: the level is never below DEBUG; it is not above
\* silent_level when silent is set or quiet exceeds verbose by two at most.
C29_Amended ==
    pc = "done" =>
        /\ DEBUG <= level
        /\ (opts.silent \/ opts.quiet <= opts.verbose + 2) => level <= silent_level

C29_Witness ==
    /\ pc = "done"
    /\ call.op = "setLevel"
    /\ ~opts.silent
    /\ opts.verbose = 5
    /\ opts.quiet = 1
    /\ level = DEBUG

\* ------------------------------------------------- claims on the tree

\* The parents whose register holds c.
Holders(c) == {p \in nodes : \E nm \in NameSet : data[p][nm] = c}

\* C7, as claimed: add under a name the parent already has registers the
\* second child under that name and leaves len(children) of the parent as
\* it was.
C7_AsClaimed ==
    (call.op = "add" /\ call.was # NoNode) =>
        /\ data[call.self][call.key] = call.node
        /\ Len(children(data, call.self)) = call.len

\* C8, as claimed: remove detaches the child, and raises nothing when the
\* name is not a child.
C8_AsClaimed ==
    call.op = "remove" =>
        /\ call.err = "ok"
        /\ data[call.self][call.key] = NoNode

\* C9, as claimed: add under a reserved name fails and leaves the register
\* as it was; add under any other name succeeds.
C9_AsClaimed ==
    call.op = "add" =>
        IF call.key \in ReservedNames
        THEN call.err # "ok" /\ data[call.self][call.key] = call.was
        ELSE call.err = "ok"

\* C9, amended: add succeeds for every name, a reserved one included, and
\* registers the child under that name with the parent link set.
C9_Amended ==
    call.op = "add" =>
        /\ call.err = "ok"
        /\ data[call.self][call.key] = call.node
        /\ parent[call.node] = call.self

C9_Witness ==
    /\ call.op = "add"
    /\ call.key = path
    /\ call.err = "ok"
    /\ data[call.self][path] = call.node

\* C10, as claimed: every parameter is in the register of at most one parent,
\* which is the parent its link names, and a removed parameter is in no
\* register and does not name its former parent.
C10_AsClaimed ==
    /\ \A c \in nodes : Cardinality(Holders(c)) <= 1
    /\ \A c \in nodes : \A p \in Holders(c) : parent[c] = p
    /\ (call.op = "remove" /\ call.err = "ok") =>
          (Holders(call.node) = {} /\ parent[call.node] # call.self)

====
